---- MODULE Spec2Model ----
(***************************************************************************)
(* A model of the rest-query-parser (package rqp, src/main.go).            *)
(*                                                                         *)
(* Go strings are modelled as sequences of one-character strings, so that  *)
(* ToUpper, Contains, Split, Atoi, Sprintf("%d") and the counting of `?`   *)
(* placeholders are computed, not assumed.  The Go map iteration order of  *)
(* `range p.query` and `range p.validations` is a nondeterministic choice. *)
(***************************************************************************)
EXTENDS Integers, Sequences, FiniteSets, TLC

\* ---------------------------------------------------------------- bounds
\* Parse() calls made on one instance: the documented lifecycle is one parse
\* pass per instance (Spec); SpecRepeat calls Parse() again on the instance.
MaxParses == 1
MaxRepeat == 2
\* Keys of the Query map.
MaxKeys == 2
\* Raw values supplied for one key of the Query.
MaxRaw == 2

\* ------------------------------------------------------- Go string helpers
LowerCase == <<"a","b","c","d","e","f","g","h","i","j","k","l","m",
               "n","o","p","q","r","s","t","u","v","w","x","y","z">>
UpperCase == <<"A","B","C","D","E","F","G","H","I","J","K","L","M",
               "N","O","P","Q","R","S","T","U","V","W","X","Y","Z">>
Digits == <<"0","1","2","3","4","5","6","7","8","9">>

\* strings.ToUpper on one character
ToUpperChar(c) ==
  IF \E i \in 1..Len(LowerCase) : LowerCase[i] = c
  THEN UpperCase[CHOOSE i \in 1..Len(LowerCase) : LowerCase[i] = c]
  ELSE c

ToUpper(s) == [i \in 1..Len(s) |-> ToUpperChar(s[i])]

\* does sep occur in s at position i
MatchAt(s, sep, i) ==
  /\ i + Len(sep) - 1 <= Len(s)
  /\ \A j \in 1..Len(sep) : s[i + j - 1] = sep[j]

\* strings.Index (1-based; 0 when sep does not occur)
Index(s, sep) ==
  IF \E i \in 1..(Len(s) + 1) : MatchAt(s, sep, i)
  THEN CHOOSE i \in 1..(Len(s) + 1) :
         /\ MatchAt(s, sep, i)
         /\ \A j \in 1..(i - 1) : ~MatchAt(s, sep, j)
  ELSE 0

Contains(s, sep) == Index(s, sep) # 0

RECURSIVE Split(_, _)
\* strings.Split: an empty separator explodes s into its characters
Split(s, sep) ==
  IF Len(sep) = 0
  THEN [i \in 1..Len(s) |-> <<s[i]>>]
  ELSE IF Index(s, sep) = 0
       THEN <<s>>
       ELSE <<SubSeq(s, 1, Index(s, sep) - 1)>>
            \o Split(SubSeq(s, Index(s, sep) + Len(sep), Len(s)), sep)

RECURSIVE Join(_, _)
\* strings.Join
Join(list, sep) ==
  IF Len(list) = 0 THEN <<>>
  ELSE IF Len(list) = 1 THEN list[1]
  ELSE list[1] \o sep \o Join(Tail(list), sep)

RECURSIVE TrimLeft(_)
TrimLeft(s) == IF Len(s) > 0 /\ s[1] = " " THEN TrimLeft(Tail(s)) ELSE s

RECURSIVE TrimRight(_)
TrimRight(s) ==
  IF Len(s) > 0 /\ s[Len(s)] = " " THEN TrimRight(SubSeq(s, 1, Len(s) - 1)) ELSE s

\* strings.TrimSpace
TrimSpace(s) == TrimRight(TrimLeft(s))

IsDigit(c) == \E i \in 1..10 : Digits[i] = c
DigitVal(c) == (CHOOSE i \in 1..10 : Digits[i] = c) - 1

RECURSIVE DigitsValue(_)
DigitsValue(s) ==
  IF Len(s) = 0 THEN 0
  ELSE 10 * DigitsValue(SubSeq(s, 1, Len(s) - 1)) + DigitVal(s[Len(s)])

\* strconv.Atoi: an optional sign and at least one decimal digit; anything
\* else is a syntax error with the value 0.  (Its range error needs more than
\* 18 digits; the raw values of this model are a few characters long.)
Atoi(s) ==
  LET signed == Len(s) > 0 /\ s[1] \in {"+", "-"}
      neg    == Len(s) > 0 /\ s[1] = "-"
      body   == IF signed THEN Tail(s) ELSE s
      n      == DigitsValue(body)
  IN IF Len(body) = 0 \/ \E i \in 1..Len(body) : ~IsDigit(body[i])
     THEN [v |-> 0, err |-> "ErrSyntax"]
     ELSE [v |-> IF neg THEN -n ELSE n, err |-> "nil"]

RECURSIVE NatDigits(_)
NatDigits(n) ==
  IF n < 10 THEN <<Digits[n + 1]>> ELSE NatDigits(n \div 10) \o <<Digits[(n % 10) + 1]>>

\* fmt.Sprintf("%d", n)
Itoa(n) == IF n < 0 THEN <<"-">> \o NatDigits(-n) ELSE NatDigits(n)

\* number of occurrences of the character c in s
Count(s, c) == Cardinality({i \in 1..Len(s) : s[i] = c})

RECURSIVE Flatten(_)
Flatten(ss) == IF Len(ss) = 0 THEN <<>> ELSE Head(ss) \o Flatten(Tail(ss))

\* ------------------------------------------------------ program constants
MethodEQ   == <<"E","Q">>
MethodNE   == <<"N","E">>
MethodGT   == <<"G","T">>
MethodLT   == <<"L","T">>
MethodGTE  == <<"G","T","E">>
MethodLTE  == <<"L","T","E">>
MethodLIKE == <<"L","I","K","E">>
MethodNOT  == <<"N","O","T">>
MethodIN   == <<"I","N">>

Methods == {MethodEQ, MethodNE, MethodGT, MethodLT, MethodGTE, MethodLTE,
            MethodLIKE, MethodNOT, MethodIN}

\* the method-to-operator table
TranslateMethods(m) ==
  CASE m = MethodEQ   -> <<"=">>
    [] m = MethodNE   -> <<"!","=">>
    [] m = MethodGT   -> <<">">>
    [] m = MethodLT   -> <<"<">>
    [] m = MethodGTE  -> <<">","=">>
    [] m = MethodLTE  -> <<"<","=">>
    [] m = MethodLIKE -> <<"L","I","K","E">>
    [] m = MethodNOT  -> <<"N","O","T">>
    [] m = MethodIN   -> <<"I","N">>
    [] OTHER          -> <<>>

KeyFIELDS == <<"F","I","E","L","D","S">>
KeyOFFSET == <<"O","F","F","S","E","T">>
KeyLIMIT  == <<"L","I","M","I","T">>
KeySORT   == <<"S","O","R","T">>

\* --------------------------------------------------------------- the state
VARIABLES
  query,          \* p.query: key -> sequence of raw values
  validations,    \* p.validations: validation key -> ValidationFunc
  fields,         \* p.fields
  offset,         \* p.offset
  limit,          \* p.limit
  sort,           \* p.sort: sequence of [by, desc]
  filters,        \* p.filters: sequence of [name, method, value]
  delimiter,      \* p.delimiter
  ignoreUnknown,  \* p.ignoreUnknown
  ErrorMessage,   \* p.ErrorMessage
  pc,             \* "idle", or "panic" once a call has panicked
  result,         \* what the last Parse() returned ("none" before any return)
  calls,          \* Parse() calls made
  first,          \* history: the parsed state when the first Parse() returned nil
  allOk,          \* history: every Parse() so far returned nil
  resolved,       \* history: <<field, type, func>> resolutions made by Parse()
  lastKey,        \* history: the key whose iteration ended the last Parse()
  before          \* history: the parsed state before that iteration

vars == <<query, validations, fields, offset, limit, sort, filters, delimiter,
          ignoreUnknown, ErrorMessage, pc, result, calls, first, allOk,
          resolved, lastKey, before>>

\* ------------------------------------------------- validation functions
\* A ValidationFunc is supplied by the caller: "nil" is no function, "accept"
\* returns nil for every value, "reject" returns its error for every value.
Funcs == {"nil", "accept", "reject"}

\* the call validate(v)
Validate(f, v) == IF f = "reject" THEN "ErrValidation" ELSE "nil"

\* p.validations[key]: the nil function for a key the table lacks
ValidationOf(key) ==
  IF key \in DOMAIN validations THEN validations[key] ELSE "nil"

\* ------------------------------------------------------------- renderers
\* Fields()
Fields == IF Len(fields) = 0 THEN <<"*">> ELSE Join(fields, <<",", " ">>)

\* Offset()
Offset ==
  IF offset > 0 THEN <<"O","F","F","S","E","T"," ">> \o Itoa(offset) ELSE <<>>

\* Limit()
Limit ==
  IF limit > 0 THEN <<"L","I","M","I","T"," ">> \o Itoa(limit) ELSE <<>>

\* one term of Sort()
SortTerm(e) == IF e.desc THEN e.by \o <<" ","D","E","S","C">> ELSE e.by

\* Sort()
Sort ==
  IF Len(sort) = 0 THEN <<>>
  ELSE <<"O","R","D","E","R"," ","B","Y"," ">>
       \o Join([i \in 1..Len(sort) |-> SortTerm(sort[i])], <<",", " ">>)

\* A coerced value is [t, list, elems]: t its Go type ("string", "int",
\* "bool"), list whether it is a slice, elems its element(s), a string as its
\* characters, an int as its decimal digits, a bool as true or false.
Scalar(t, e) == [t |-> t, list |-> FALSE, elems |-> <<e>>]

\* in(query, value): the bindvar `?` of query expanded to one `?` per element
\* of value (a single `?` for a scalar), and the elements as parameters
in(q, value) ==
  LET elems == [i \in 1..Len(value.elems) |-> Scalar(value.t, value.elems[i])]
      at    == Index(q, <<"?">>)
      marks == Join([i \in 1..Len(elems) |-> <<"?">>], <<",", " ">>)
  IN IF at = 0
     THEN [q |-> q, params |-> elems]
     ELSE [q |-> SubSeq(q, 1, at - 1) \o marks \o SubSeq(q, at + 1, Len(q)),
           params |-> elems]

\* the body of Where()'s loop for one filter: skip = the `continue` of default
WhereExp(filter) ==
  IF filter.method \in {MethodEQ, MethodNE, MethodGT, MethodLT, MethodGTE,
                        MethodLTE, MethodLIKE}
  THEN [skip |-> FALSE,
        exp  |-> filter.name \o <<" ">> \o TranslateMethods(filter.method)
                 \o <<" ", "?">>]
  ELSE IF filter.method = MethodIN
  THEN [skip |-> FALSE,
        exp  |-> in(filter.name \o <<" ">> \o TranslateMethods(filter.method)
                    \o <<" ", "(", "?", ")">>, filter.value).q]
  ELSE [skip |-> TRUE, exp |-> <<>>]

RECURSIVE WhereTerms(_)
\* the slice `where` built by Where()'s loop over fs
WhereTerms(fs) ==
  IF Len(fs) = 0 THEN <<>>
  ELSE (IF WhereExp(Head(fs)).skip THEN <<>> ELSE <<WhereExp(Head(fs)).exp>>)
       \o WhereTerms(Tail(fs))

\* Where() on the filter list fs
WhereOf(fs) ==
  IF Len(fs) = 0 THEN <<>> ELSE Join(WhereTerms(fs), <<" ","A","N","D"," ">>)

\* Where()
Where == WhereOf(filters)

\* strings.Replace(value, "*", "%", -1)
ReplaceStar(s) == [i \in 1..Len(s) |-> IF s[i] = "*" THEN "%" ELSE s[i]]

\* ArgsExp with NOT among the methods whose value is appended
ArgsExpNotAppended(filter) ==
  IF filter.method \in {MethodEQ, MethodNE, MethodGT, MethodLT, MethodGTE,
                        MethodLTE, MethodNOT}
  THEN <<filter.value>>
  ELSE IF filter.method = MethodLIKE
  THEN <<Scalar("string", ReplaceStar(filter.value.elems[1]))>>
  ELSE IF filter.method = MethodIN
  THEN in(<<"?">>, filter.value).params
  ELSE <<>>

\* the body of Args()'s loop for one filter: what it appends to args
ArgsExp(filter) ==
  IF filter.method \in {MethodEQ, MethodNE, MethodGT, MethodLT, MethodGTE,
                        MethodLTE}
  THEN <<filter.value>>
  ELSE IF filter.method = MethodLIKE
  THEN <<Scalar("string", ReplaceStar(filter.value.elems[1]))>>
  ELSE IF filter.method = MethodIN
  THEN in(<<"?">>, filter.value).params
  ELSE <<>>

\* Args() on the filter list fs
ArgsOf(fs) == Flatten([i \in 1..Len(fs) |-> ArgsExp(fs[i])])

\* Args()
Args == ArgsOf(filters)

\* Args() panics: the type assertion filter.value.(string) of a LIKE filter
\* whose value is not a string
ArgsPanics ==
  \E i \in 1..Len(filters) :
    filters[i].method = MethodLIKE /\ filters[i].value.t # "string"

\* ------------------------------------------------------- reserved handlers
\* cleanSliceString: every element trimmed
cleanSliceString(list) == [i \in 1..Len(list) |-> TrimSpace(list[i])]

\* the list a FIELDS or SORT value is split into
SplitList(value) ==
  cleanSliceString(IF Contains(value[1], delimiter)
                   THEN Split(value[1], delimiter)
                   ELSE value)

\* SortEntry that leaves the `+` sign in the field name
SortEntryPlusKept(v) ==
  IF v[1] = "-" THEN [by |-> Tail(v), desc |-> TRUE]
  ELSE [by |-> v, desc |-> FALSE]

\* the Sort entry of one token
SortEntry(v) ==
  IF v[1] = "-" THEN [by |-> Tail(v), desc |-> TRUE]
  ELSE IF v[1] = "+" THEN [by |-> Tail(v), desc |-> FALSE]
  ELSE [by |-> v, desc |-> FALSE]

RECURSIVE SortLoop(_, _, _)
\* parseSort's loop over list, acc being p.sort so far; v[0] of an empty
\* token is an index out of range
SortLoop(list, acc, validate) ==
  IF Len(list) = 0 THEN [err |-> "nil", sort |-> acc, panic |-> FALSE]
  ELSE IF Len(Head(list)) = 0
  THEN [err |-> "nil", sort |-> acc, panic |-> TRUE]
  ELSE IF validate # "nil" /\ Validate(validate, SortEntry(Head(list)).by) # "nil"
  THEN [err |-> Validate(validate, SortEntry(Head(list)).by), sort |-> acc,
        panic |-> FALSE]
  ELSE SortLoop(Tail(list), Append(acc, SortEntry(Head(list))), validate)

\* parseSort on an instance whose p.sort is cur
parseSort(cur, value, validate) ==
  IF Len(value) # 1
  THEN [err |-> "ErrBadFormat", sort |-> cur, panic |-> FALSE]
  ELSE SortLoop(SplitList(value), cur, validate)

\* parseFields on an instance whose p.fields is cur
parseFields(cur, value, validate) ==
  IF Len(value) = 1
  THEN LET list == SplitList(value)
           errs == [i \in 1..Len(list) |-> Validate(validate, list[i])]
       IN IF validate # "nil" /\ \E i \in 1..Len(list) : errs[i] # "nil"
          THEN [err |-> errs[CHOOSE i \in 1..Len(list) : errs[i] # "nil"],
                fields |-> cur]
          ELSE [err |-> "nil", fields |-> list]
  ELSE [err |-> "ErrBadFormat", fields |-> cur]

\* parseOffset without the early return on an empty value
parseOffsetNoEmpty(cur, value, validate) ==
  IF Len(value) # 1 THEN [err |-> "ErrBadFormat", offset |-> cur]
  ELSE IF Atoi(value[1]).err # "nil"
  THEN [err |-> Atoi(value[1]).err, offset |-> Atoi(value[1]).v]
  ELSE IF validate # "nil" /\ Validate(validate, Atoi(value[1]).v) # "nil"
  THEN [err |-> Validate(validate, Atoi(value[1]).v), offset |-> Atoi(value[1]).v]
  ELSE [err |-> "nil", offset |-> Atoi(value[1]).v]

\* parseOffset on an instance whose p.offset is cur
parseOffset(cur, value, validate) ==
  IF Len(value) # 1 THEN [err |-> "ErrBadFormat", offset |-> cur]
  ELSE IF Len(value[1]) = 0 THEN [err |-> "nil", offset |-> cur]
  ELSE IF Atoi(value[1]).err # "nil"
  THEN [err |-> Atoi(value[1]).err, offset |-> Atoi(value[1]).v]
  ELSE IF validate # "nil" /\ Validate(validate, Atoi(value[1]).v) # "nil"
  THEN [err |-> Validate(validate, Atoi(value[1]).v), offset |-> Atoi(value[1]).v]
  ELSE [err |-> "nil", offset |-> Atoi(value[1]).v]

\* parseLimit that only rejects an absent value and reads the first of several
parseLimitFirstOfMany(cur, value, validate) ==
  IF Len(value) < 1 THEN [err |-> "ErrBadFormat", limit |-> cur]
  ELSE IF Len(value[1]) = 0 THEN [err |-> "nil", limit |-> cur]
  ELSE IF Atoi(value[1]).err # "nil"
  THEN [err |-> Atoi(value[1]).err, limit |-> Atoi(value[1]).v]
  ELSE IF validate # "nil" /\ Validate(validate, Atoi(value[1]).v) # "nil"
  THEN [err |-> Validate(validate, Atoi(value[1]).v), limit |-> Atoi(value[1]).v]
  ELSE [err |-> "nil", limit |-> Atoi(value[1]).v]

\* parseLimit on an instance whose p.limit is cur
parseLimit(cur, value, validate) ==
  IF Len(value) # 1 THEN [err |-> "ErrBadFormat", limit |-> cur]
  ELSE IF Len(value[1]) = 0 THEN [err |-> "nil", limit |-> cur]
  ELSE IF Atoi(value[1]).err # "nil"
  THEN [err |-> Atoi(value[1]).err, limit |-> Atoi(value[1]).v]
  ELSE IF validate # "nil" /\ Validate(validate, Atoi(value[1]).v) # "nil"
  THEN [err |-> Validate(validate, Atoi(value[1]).v), limit |-> Atoi(value[1]).v]
  ELSE [err |-> "nil", limit |-> Atoi(value[1]).v]

\* ---------------------------------------------------------- filter keys
TypeString == <<"s","t","r","i","n","g">>
TypeInt    == <<"i","n","t">>
TypeBool   == <<"b","o","o","l">>

\* parseFilterKey: NAME[':'METHOD[':'INDEX]], METHOD defaulting to EQ
parseFilterKey(key) ==
  LET segs == Split(key, <<":">>)
  IN IF \/ Len(segs) > 3
        \/ Len(segs[1]) = 0
        \/ (Len(segs) >= 2 /\ segs[2] \notin Methods)
     THEN [err |-> "ErrBadFormat", name |-> <<>>, method |-> <<>>]
     ELSE [err |-> "nil", name |-> segs[1],
           method |-> IF Len(segs) >= 2 THEN segs[2] ELSE MethodEQ]

\* strconv.ParseBool
ParseBool(tok) ==
  IF tok \in {<<"1">>, <<"t">>, <<"T">>, <<"t","r","u","e">>,
              <<"T","R","U","E">>, <<"T","r","u","e">>}
  THEN [v |-> TRUE, err |-> "nil"]
  ELSE IF tok \in {<<"0">>, <<"f">>, <<"F">>, <<"f","a","l","s","e">>,
                   <<"F","A","L","S","E">>, <<"F","a","l","s","e">>}
  THEN [v |-> FALSE, err |-> "nil"]
  ELSE [v |-> FALSE, err |-> "ErrSyntax"]

\* the Go type of the values of the resolved type token
GoType(type) ==
  IF type = TypeInt THEN "int" ELSE IF type = TypeBool THEN "bool" ELSE "string"

\* one token coerced to the resolved type (string, int, bool)
Coerce(type, tok) ==
  IF type = TypeInt
  THEN [err |-> IF Atoi(tok).err = "nil" THEN "nil" ELSE "ErrBadInt",
        val |-> Scalar("int", Itoa(Atoi(tok).v))]
  ELSE IF type = TypeBool
  THEN [err |-> IF ParseBool(tok).err = "nil" THEN "nil" ELSE "ErrBadBool",
        val |-> Scalar("bool", IF ParseBool(tok).v THEN <<"t","r","u","e">>
                               ELSE <<"f","a","l","s","e">>)]
  ELSE [err |-> "nil", val |-> Scalar("string", tok)]

\* the first error of a sequence of errors, "nil" when there is none
FirstErr(errs) ==
  IF \E i \in 1..Len(errs) : errs[i] # "nil"
  THEN errs[CHOOSE i \in 1..Len(errs) :
              errs[i] # "nil" /\ \A j \in 1..(i - 1) : errs[j] = "nil"]
  ELSE "nil"

\* parseFilterValue on an instance whose p.filters is cur: the raw value(s)
\* split into tokens, each coerced and validated; IN takes the token sequence,
\* every other method one token
parseFilterValue(cur, filter, type, value, validate) ==
  LET tokens == IF Len(value) = 1 /\ Contains(value[1], delimiter)
                THEN Split(value[1], delimiter)
                ELSE value
      co     == [i \in 1..Len(tokens) |-> Coerce(type, tokens[i])]
      errs   == [i \in 1..Len(tokens) |->
                   IF co[i].err # "nil" THEN co[i].err
                   ELSE IF validate # "nil" THEN Validate(validate, co[i].val)
                   ELSE "nil"]
      vals   == [i \in 1..Len(tokens) |-> co[i].val]
      add(v) == Append(cur,
                       [name |-> filter.name, method |-> filter.method,
                        value |-> v])
  IN IF filter.method # MethodIN /\ Len(tokens) # 1
     THEN [err |-> "ErrBadFormat", filters |-> cur]
     ELSE IF FirstErr(errs) # "nil"
     THEN [err |-> FirstErr(errs), filters |-> cur]
     ELSE IF filter.method = MethodIN
     THEN [err |-> "nil",
           filters |-> add([t |-> GoType(type), list |-> TRUE,
                            elems |-> [i \in 1..Len(vals) |-> vals[i].elems[1]]])]
     ELSE [err |-> "nil", filters |-> add(vals[1])]

\* the outcomes of Parse's scan of p.validations for the field name: the first
\* qualifying entry in the map's iteration order decides, and any qualifying
\* entry can come first
Resolve(name) ==
  LET typed == {k \in DOMAIN validations :
                  Contains(k, <<":">>) /\ Split(k, <<":">>)[1] = name}
      bare  == {k \in DOMAIN validations :
                  ~Contains(k, <<":">>) /\ k = name}
      hits  == {[allowed |-> TRUE, func |-> validations[k],
                 type |-> Split(k, <<":">>)[2]] : k \in typed}
               \cup {[allowed |-> TRUE, func |-> ValidationOf(name),
                      type |-> TypeString] : k \in bare}
  IN IF hits = {}
     THEN {[allowed |-> FALSE, func |-> ValidationOf(name), type |-> TypeString]}
     ELSE hits

\* ------------------------------------------------------------- the inputs
Delimiters == {<<",">>, <<"|">>}

kSort   == <<"s","o","r","t">>
kLimit  == <<"L","I","M","I","T">>
kOffset == <<"o","f","f","s","e","t">>
kFields == <<"f","i","e","l","d","s">>
kA      == <<"a">>
kAIn    == <<"a",":","I","N">>
kANot   == <<"a",":","N","O","T">>
kALike  == <<"a",":","L","I","K","E">>
kB      == <<"b">>
kAInt   == <<"a",":","i","n","t">>
kBInt   == <<"b",":","i","n","t">>

QueryKeys == {kSort, kLimit, kOffset, kFields, kA, kAIn, kANot, kALike, kB}

\* the single raw values tried for a key
RawValues(k) ==
  CASE k = kSort   -> {<<"-","a",",","+","b">>, <<>>}
    [] k = kLimit  -> {<<>>, <<"1","0">>, <<"-","5">>, <<"x">>}
    [] k = kOffset -> {<<>>, <<"1","0">>, <<"-","5">>, <<"x">>}
    [] k = kFields -> {<<"a",","," ","b">>}
    [] k = kA      -> {<<"7">>}
    [] k = kAIn    -> {<<"1",",","2">>}
    [] k = kANot   -> {<<"x">>}
    [] k = kALike  -> {<<"x","*">>, <<"7">>}
    [] OTHER       -> {<<"x">>}

\* the value lists tried for a key: none, one, or several raw values
RawLists(k) ==
  {<<>>} \cup {<<v>> : v \in RawValues(k)}
         \cup {[i \in 1..n |-> <<"1">>] : n \in 2..MaxRaw}

\* the keys that accompany the key under test, and the well-formed single
\* value each carries
CompanionKeys == {kSort, kAIn}

Plain(k) ==
  CASE k = kSort -> <<<<"-","a",",","+","b">>>>
    [] k = kA    -> <<<<"7">>>>
    [] k = kAIn  -> <<<<"1",",","2">>>>
    [] OTHER     -> <<<<"x">>>>

\* the queries tried: the empty one, and at most MaxKeys keys of which one
\* carries any of its value lists and the others are companions
Queries ==
  {<<>>} \cup
  UNION {{[k \in C \cup {t} |-> IF k = t THEN l ELSE Plain(k)] :
            l \in RawLists(t),
            C \in {D \in SUBSET (CompanionKeys \ {t}) : Cardinality(D) < MaxKeys}} :
           t \in QueryKeys}

\* the validation tables tried
Tables ==
  { <<>>,
    (kA :> "nil") @@ (kAInt :> "accept"),
    (kA :> "reject") @@ (kSort :> "reject") @@ (kOffset :> "reject")
      @@ (kLimit :> "reject") @@ (kFields :> "reject"),
    (kBInt :> "nil") @@ (kSort :> "accept") @@ (kOffset :> "accept")
      @@ (kLimit :> "accept") @@ (kFields :> "accept") }


\* ---------------------------------------------------------- the machine
\* the state Parse() accumulates
Parsed ==
  [fields |-> fields, offset |-> offset, limit |-> limit, sort |-> sort,
   filters |-> filters]

\* the instance as Parse() finds it
Instance ==
  [fields |-> fields, offset |-> offset, limit |-> limit, sort |-> sort,
   filters |-> filters, ErrorMessage |-> ErrorMessage, resolved |-> resolved]

\* the parsed part of the instance p
ParsedOf(p) ==
  [fields |-> p.fields, offset |-> p.offset, limit |-> p.limit,
   sort |-> p.sort, filters |-> p.filters]

IsReserved(k) == ToUpper(k) \in {KeyFIELDS, KeyOFFSET, KeyLIMIT, KeySORT}

\* fmt.Sprintf("%s: %v", key, err)
Annotate(k, err) == k \o <<":", " ">> \o <<err>>

\* IterateFilter that never consults p.ignoreUnknown
IterateFilterStrict(p, k, r) ==
  LET fk == parseFilterKey(k)
      pv == parseFilterValue(p.filters, fk, r.type, query[k], r.func)
  IN IF fk.err # "nil" THEN [p |-> p, err |-> fk.err, panic |-> FALSE]
     ELSE IF ~r.allowed
     THEN [p |-> p, panic |-> FALSE, err |-> "ErrFilterNotAllowed"]
     ELSE [p |-> [p EXCEPT !.filters = pv.filters,
                           !.resolved = @ \cup {<<fk.name, r.type, r.func>>},
                           !.ErrorMessage = IF pv.err # "nil"
                                            THEN Annotate(k, pv.err) ELSE @],
           err |-> pv.err, panic |-> FALSE]

\* the filter branch of Parse's loop body on key k, r being the outcome of
\* the scan of p.validations
IterateFilter(p, k, r) ==
  LET fk == parseFilterKey(k)
      pv == parseFilterValue(p.filters, fk, r.type, query[k], r.func)
  IN IF fk.err # "nil" THEN [p |-> p, err |-> fk.err, panic |-> FALSE]
     ELSE IF ~r.allowed
     THEN [p |-> p, panic |-> FALSE,
           err |-> IF ignoreUnknown THEN "nil" ELSE "ErrFilterNotAllowed"]
     ELSE [p |-> [p EXCEPT !.filters = pv.filters,
                           !.resolved = @ \cup {<<fk.name, r.type, r.func>>},
                           !.ErrorMessage = IF pv.err # "nil"
                                            THEN Annotate(k, pv.err) ELSE @],
           err |-> pv.err, panic |-> FALSE]

\* the body of Parse's loop on key k
Iterate(p, k, r) ==
  IF ToUpper(k) = KeyFIELDS
  THEN LET h == parseFields(p.fields, query[k], ValidationOf(k))
       IN [p |-> [p EXCEPT !.fields = h.fields], err |-> h.err, panic |-> FALSE]
  ELSE IF ToUpper(k) = KeyOFFSET
  THEN LET h == parseOffset(p.offset, query[k], ValidationOf(k))
       IN [p |-> [p EXCEPT !.offset = h.offset], err |-> h.err, panic |-> FALSE]
  ELSE IF ToUpper(k) = KeyLIMIT
  THEN LET h == parseLimit(p.limit, query[k], ValidationOf(k))
       IN [p |-> [p EXCEPT !.limit = h.limit], err |-> h.err, panic |-> FALSE]
  ELSE IF ToUpper(k) = KeySORT
  THEN LET h == parseSort(p.sort, query[k], ValidationOf(k))
       IN [p |-> [p EXCEPT !.sort = h.sort], err |-> h.err, panic |-> h.panic]
  ELSE IterateFilter(p, k, r)

RECURSIVE ParseLoop(_, _, _)
\* Parse's loop over the keys in the order the map yields them; rc[k] is the
\* outcome of the scan of p.validations made for key k.  When an iteration
\* ends the call, last is its key and prev the parsed state before it.
ParseLoop(p, order, rc) ==
  IF Len(order) = 0
  THEN [p |-> p, err |-> "nil", panic |-> FALSE, last |-> <<>>, prev |-> <<>>]
  ELSE LET s == Iterate(p, Head(order), rc[Head(order)])
       IN IF s.panic \/ s.err # "nil"
          THEN [p |-> s.p, err |-> s.err, panic |-> s.panic,
                last |-> <<Head(order)>>, prev |-> <<ParsedOf(p)>>]
          ELSE ParseLoop(s.p, Tail(order), rc)

\* the orders in which a Go map can yield the keys S
Orders(S) ==
  {o \in [1..Cardinality(S) -> S] : \A i, j \in 1..Cardinality(S) : o[i] = o[j] => i = j}

\* the outcomes the scan of p.validations can have for the key k
ResolveKey(k) ==
  IF IsReserved(k) \/ parseFilterKey(k).err # "nil"
  THEN {[allowed |-> FALSE, func |-> "nil", type |-> TypeString]}
  ELSE Resolve(parseFilterKey(k).name)

\* one outcome per key of the query
Resolutions ==
  {rc \in [DOMAIN query -> UNION {ResolveKey(k) : k \in DOMAIN query}] :
     \A k \in DOMAIN query : rc[k] \in ResolveKey(k)}

\* New(query, validations): defaults().SetQuery(query).SetValidations(validations)
Init ==
  /\ query \in Queries
  /\ validations \in Tables
  /\ fields = <<>>
  /\ offset = 0
  /\ limit = 0
  /\ sort = <<>>
  /\ filters = <<>>
  /\ delimiter = <<",">>
  /\ ignoreUnknown = FALSE
  /\ ErrorMessage = <<>>
  /\ pc = "idle"
  /\ result = "none"
  /\ calls = 0
  /\ first = <<>>
  /\ allOk = TRUE
  /\ resolved = {}
  /\ lastKey = <<>>
  /\ before = <<>>

\* Delimiter(d), chained on the new instance
Delimiter(d) ==
  /\ pc = "idle"
  /\ calls = 0
  /\ delimiter' = d
  /\ UNCHANGED <<query, validations, fields, offset, limit, sort, filters,
                 ignoreUnknown, ErrorMessage, pc, result, calls, first, allOk,
                 resolved, lastKey, before>>

\* IgnoreUnknownFilters(i), chained on the new instance
IgnoreUnknownFilters(i) ==
  /\ pc = "idle"
  /\ calls = 0
  /\ ignoreUnknown' = i
  /\ UNCHANGED <<query, validations, fields, offset, limit, sort, filters,
                 delimiter, ErrorMessage, pc, result, calls, first, allOk,
                 resolved, lastKey, before>>

\* Parse(): the whole call, in one of the orders the map can yield the keys;
\* max bounds the calls made on the instance
Parse(max) ==
  /\ pc = "idle"
  /\ calls < max
  /\ \E out \in {ParseLoop(Instance, order, rc) :
                    order \in Orders(DOMAIN query), rc \in Resolutions} :
       LET ok == out.err = "nil" /\ ~out.panic
       IN /\ fields' = out.p.fields
          /\ offset' = out.p.offset
          /\ limit' = out.p.limit
          /\ sort' = out.p.sort
          /\ filters' = out.p.filters
          /\ ErrorMessage' = out.p.ErrorMessage
          /\ resolved' = out.p.resolved
          /\ lastKey' = out.last
          /\ before' = out.prev
          /\ pc' = IF out.panic THEN "panic" ELSE "idle"
          /\ result' = IF out.panic THEN result ELSE out.err
          /\ allOk' = (allOk /\ ok)
          /\ first' = IF calls = 0 /\ ok THEN <<ParsedOf(out.p)>> ELSE first
  /\ calls' = calls + 1
  /\ UNCHANGED <<query, validations, delimiter, ignoreUnknown>>

Next ==
  \/ \E d \in Delimiters : Delimiter(d)
  \/ \E i \in BOOLEAN : IgnoreUnknownFilters(i)
  \/ Parse(MaxParses)

Spec == Init /\ [][Next]_vars

\* the same instance with Parse() called repeatedly
NextRepeat ==
  \/ \E d \in Delimiters : Delimiter(d)
  \/ \E i \in BOOLEAN : IgnoreUnknownFilters(i)
  \/ Parse(MaxRepeat)

SpecRepeat == Init /\ [][NextRepeat]_vars

\* ------------------------------------------------------------ the claims
\* a Parse() call has returned (it did not panic)
Returned == pc = "idle" /\ calls >= 1

\* every key of the query was handled by the last Parse()
Succeeded == Returned /\ result = "nil"

\* the keys of the query that Parse's dispatch sends to the handler of name
KeysOf(name) == {k \in DOMAIN query : ToUpper(k) = name}

UnknownKeys ==
  {k \in DOMAIN query :
     /\ ~IsReserved(k)
     /\ parseFilterKey(k).err = "nil"
     /\ \A r \in Resolve(parseFilterKey(k).name) : ~r.allowed}

\* the filter keys of the query whose field name the table allows
KnownKeys ==
  {k \in DOMAIN query :
     /\ ~IsReserved(k)
     /\ parseFilterKey(k).err = "nil"
     /\ \E r \in Resolve(parseFilterKey(k).name) : r.allowed}

\* C2: no Filter is ever recorded for an unknown filter key.  Under the
\* default policy a Parse() that reaches the key returns ErrFilterNotAllowed,
\* and no Parse() of a query holding one returns nil.  With
\* IgnoreUnknownFilters(true) the key never ends a Parse(), a Parse() that
\* returns nil has recorded a Filter for every known filter key, and a query
\* of unknown keys only parses to nil with Where() empty.
C2_UnknownFilterPolicy ==
  /\ \A k \in UnknownKeys : \A i \in 1..Len(filters) :
       filters[i].name # parseFilterKey(k).name
  /\ (Returned /\ ~ignoreUnknown) =>
       /\ \A k \in UnknownKeys : lastKey = <<k>> => result = "ErrFilterNotAllowed"
       /\ UnknownKeys # {} => result # "nil"
  /\ (Returned /\ ignoreUnknown) =>
       /\ \A k \in UnknownKeys : lastKey # <<k>>
       /\ result = "nil" =>
            \A k \in KnownKeys : \E i \in 1..Len(filters) :
              /\ filters[i].name = parseFilterKey(k).name
              /\ filters[i].method = parseFilterKey(k).method
       /\ (UnknownKeys = DOMAIN query) => (result = "nil" /\ Where = <<>>)

C2_Witness ==
  /\ Succeeded
  /\ ignoreUnknown
  /\ UnknownKeys # {}
  /\ KnownKeys # {}
  /\ Len(filters) = Cardinality(KnownKeys)

\* C3 (as claimed): after a successful Parse() every Filter with one of the
\* nine recognized methods contributes a term to Where().
C3_EveryRecognizedMethodRendered ==
  Succeeded =>
    \A i \in 1..Len(filters) :
      filters[i].method \in Methods => ~WhereExp(filters[i]).skip

\* a decimal numeral without sign or leading zero, denoting n > 0
IsPlainPositive(v) ==
  /\ Len(v) > 0
  /\ \A i \in 1..Len(v) : IsDigit(v[i])
  /\ v[1] # "0"

\* a non-empty raw value that is not a decimal integer
IsNonNumeric(v) ==
  /\ Len(v) > 0
  /\ ~(\E i \in 1..Len(v) :
         /\ (i = 1 \/ (i = 2 /\ v[1] \in {"+", "-"}))
         /\ \A j \in i..Len(v) : IsDigit(v[j]))

\* the key k was handled by the last Parse()
Handled(k) == Returned /\ (result = "nil" \/ lastKey = <<k>>)

\* C4: when no OFFSET (LIMIT) key carries anything but a single "", the handler
\* never ends Parse(), the stored value stays 0 and Offset() (Limit()) is
\* empty; once a key with the single value n > 0 was handled, Offset()
\* (Limit()) is exactly `OFFSET n` (`LIMIT n`); a single non-numeric value
\* ends Parse() with the conversion error.
C4_OffsetLimitRendering ==
  /\ (Returned /\ \A k \in KeysOf(KeyOFFSET) : query[k] = << <<>> >>) =>
       /\ offset = 0 /\ Offset = <<>>
       /\ \A k \in KeysOf(KeyOFFSET) : lastKey # <<k>>
  /\ (Returned /\ \A k \in KeysOf(KeyLIMIT) : query[k] = << <<>> >>) =>
       /\ limit = 0 /\ Limit = <<>>
       /\ \A k \in KeysOf(KeyLIMIT) : lastKey # <<k>>
  /\ \A k \in KeysOf(KeyOFFSET) :
       /\ (Handled(k) /\ Len(query[k]) = 1 /\ IsPlainPositive(query[k][1])) =>
            Offset = <<"O","F","F","S","E","T"," ">> \o query[k][1]
       /\ (Returned /\ Len(query[k]) = 1 /\ IsNonNumeric(query[k][1])) =>
            /\ result # "nil"
            /\ lastKey = <<k>> => result = "ErrSyntax"
  /\ \A k \in KeysOf(KeyLIMIT) :
       /\ (Handled(k) /\ Len(query[k]) = 1 /\ IsPlainPositive(query[k][1])) =>
            Limit = <<"L","I","M","I","T"," ">> \o query[k][1]
       /\ (Returned /\ Len(query[k]) = 1 /\ IsNonNumeric(query[k][1])) =>
            /\ result # "nil"
            /\ lastKey = <<k>> => result = "ErrSyntax"

C4_Witness ==
  /\ Succeeded
  /\ kOffset \in DOMAIN query
  /\ Offset = <<"O","F","F","S","E","T"," ","1","0">>
  /\ Limit = <<>>

\* C5 (as claimed): after a successful Parse() the stored offset and limit
\* are not negative.
C5_OffsetLimitNonNegative ==
  Succeeded => (offset >= 0 /\ limit >= 0)

\* C6: a reserved key with zero or several raw values makes Parse() fail;
\* when its handler is the one that ends Parse(), the error is ErrBadFormat
\* and the parsed state is what it was before the key was handled.
C6_ReservedKeyArity ==
  \A k \in DOMAIN query :
    (Returned /\ IsReserved(k) /\ Len(query[k]) # 1) =>
      /\ result # "nil"
      /\ lastKey = <<k>> => (result = "ErrBadFormat" /\ before = <<Parsed>>)

C6_Witness ==
  /\ Returned
  /\ \E k \in DOMAIN query :
       /\ IsReserved(k)
       /\ Len(query[k]) = 2
       /\ lastKey = <<k>>
  /\ result = "ErrBadFormat"
  /\ Len(sort) = 2

\* the Sort entry the claim gives for a token
ClaimedEntry(tok) ==
  [by   |-> IF tok[1] \in {"-", "+"} THEN SubSeq(tok, 2, Len(tok)) ELSE tok,
   desc |-> tok[1] = "-"]

\* the tokens of a SORT value: split on the delimiter, trimmed
SortTokens(v) ==
  [i \in 1..Len(Split(v, delimiter)) |-> TrimSpace(Split(v, delimiter)[i])]

RECURSIVE Repeat(_, _)
Repeat(list, n) == IF n = 0 THEN <<>> ELSE list \o Repeat(list, n - 1)

\* the ORDER BY text the claim gives for a Sort list
ClaimedOrderBy(entries) ==
  IF Len(entries) = 0 THEN <<>>
  ELSE <<"O","R","D","E","R"," ","B","Y"," ">>
       \o Join([i \in 1..Len(entries) |->
                  IF entries[i].desc
                  THEN entries[i].by \o <<" ","D","E","S","C">>
                  ELSE entries[i].by], <<",", " ">>)

\* C7: when every Parse() so far returned nil, the Sort list holds, per call
\* and in order, one entry per token of the single SORT value, signs read as
\* claimed, and Sort() renders the list as claimed (nothing for an empty list).
C7_SortParsedAndRendered ==
  /\ Sort = ClaimedOrderBy(sort)
  /\ \A k \in KeysOf(KeySORT) :
       (Returned /\ allOk /\ Len(query[k]) = 1) =>
         sort = Repeat([i \in 1..Len(SortTokens(query[k][1])) |->
                          ClaimedEntry(SortTokens(query[k][1])[i])], calls)
  /\ (Returned /\ allOk /\ KeysOf(KeySORT) = {}) => (sort = <<>> /\ Sort = <<>>)

C7_Witness ==
  /\ Succeeded
  /\ sort = <<[by |-> <<"a">>, desc |-> TRUE], [by |-> <<"b">>, desc |-> FALSE]>>
  /\ Sort = <<"O","R","D","E","R"," ","B","Y"," ","a"," ","D","E","S","C",",",
              " ","b">>

\* C8 (as claimed): when a validation function's error ends Parse(), on a
\* filter key or a reserved key alike, ErrorMessage is `<key>: <error>`.
C8_ValidationErrorAnnotated ==
  \A k \in DOMAIN query :
    (Returned /\ result = "ErrValidation" /\ lastKey = <<k>>) =>
      ErrorMessage = k \o <<":", " ">> \o <<"ErrValidation">>

\* C9 (as claimed): after any number of successful Parse() calls the parsed
\* state is the one the first call left.
C9_ParseIdempotent ==
  (Returned /\ allOk) => first = <<Parsed>>

\* C10 (as claimed): a field name is resolved to one coercion type and one
\* validation function, whatever the order the table is enumerated in.
C10_ResolutionDeterministic ==
  \A x, y \in resolved : x[1] = y[1] => x = y

====
